---------------------------- MODULE Spec2Model ----------------------------
(***************************************************************************)
(* UDP sequence-integrity checker.                                         *)
(*                                                                         *)
(* Three programs of the repository are modelled:                          *)
(*   - the pcap pipeline of feature_test.py: extract_pcap_data,            *)
(*     process_pcap_files, detect_sequence_gaps;                           *)
(*   - the first CSV checker of PCAP_Script.py (lines 113-197);            *)
(*   - the second CSV checker of PCAP_Script.py (lines 199-281).           *)
(*                                                                         *)
(* Text (addresses, payloads, decimal fields) is a sequence of one-        *)
(* character strings, so that prefixes, slices and lengths are computed.   *)
(* An optional value (Python None, pandas NaN) is a sequence of length 0   *)
(* or 1: None == << >>, Some(v) == <<v>>.                                  *)
(* A Python integer is held in two limbs, value = hi * Base + lo with      *)
(* 0 <= lo < Base and hi any integer, so that the 32-bit sequence field    *)
(* and differences of two such values are exact.                           *)
(* The Time column is a display value no operation reads; it is left out.  *)
(***************************************************************************)
EXTENDS Integers, Sequences, FiniteSets, TLC

VARIABLES
    raw,              \* pipeline: the decoder's records, in capture order
    df,               \* pipeline: the DataFrame extract_pcap_data returned
    selected_groups,  \* pipeline: the groups handed to detect_sequence_gaps
    printed,          \* pipeline: per bucket, the gaps detect_sequence_gaps printed
    summary,          \* pipeline: the rows of the Summary sheet
    pc,               \* position of the program being run
    hex_data,         \* extractor: the Data cell handed to extract_sequence_number
    ext,              \* extractor: which definition was called, and its result
    csv,              \* CSV checkers: the rows of the selected CSV file
    out1,             \* first CSV checker: malformed sheet, processed sheet, printed lines
    out2              \* second CSV checker: processed sheet, summary rows

vars == <<raw, df, selected_groups, printed, summary, pc, hex_data, ext, csv, out1, out2>>

pipelineVars == <<raw, df, selected_groups, printed, summary>>
extractorVars == <<hex_data, ext>>
csvVars == <<csv, out1, out2>>

---------------------------------------------------------------------------
(* Optional values *)

None == << >>
Some(v) == <<v>>
IsSome(o) == Len(o) = 1
Val(o) == o[1]

---------------------------------------------------------------------------
(* Python integers in two limbs *)

Base == 256 * 256

Num(h, l) == [hi |-> h, lo |-> l]
Zero == Num(0, 0)

\* n + 1
Inc(n) == IF n.lo = Base - 1 THEN Num(n.hi + 1, 0) ELSE Num(n.hi, n.lo + 1)

\* a - b
Minus(a, b) ==
    LET dl == a.lo - b.lo
        dh == a.hi - b.hi
    IN  IF dl < 0 THEN Num(dh - 1, dl + Base) ELSE Num(dh, dl)

\* a < b
Lt(a, b) == a.hi < b.hi \/ (a.hi = b.hi /\ a.lo < b.lo)
Le(a, b) == a = b \/ Lt(a, b)

\* n * 16 + d, the step of a base-16 conversion
Shift16(n, d) ==
    LET l == n.lo * 16 + d
    IN  Num(n.hi * 16 + (l \div Base), l % Base)

IsNegative(n) == n.hi < 0
IsPositive(n) == n.hi > 0 \/ (n.hi = 0 /\ n.lo > 0)
MinusOne == Num(-1, Base - 1)
\* 2^32 - 1, the largest value of the 4-byte field
MaxU32 == Num(Base - 1, Base - 1)
InU32(n) == Le(Zero, n) /\ Le(n, MaxU32)

---------------------------------------------------------------------------
(* Text *)

StartsWith(s, p) == Len(s) >= Len(p) /\ SubSeq(s, 1, Len(p)) = p

\* Python's s[a:b] for 0 <= a <= b
Slice(s, a, b) ==
    LET e == IF b < Len(s) THEN b ELSE Len(s)
    IN  IF a >= e THEN << >> ELSE SubSeq(s, a + 1, e)

DecDigits == <<"0", "1", "2", "3", "4", "5", "6", "7", "8", "9">>
LowerHex == <<"a", "b", "c", "d", "e", "f">>
UpperHex == <<"A", "B", "C", "D", "E", "F">>

IndexOf(c, s) == CHOOSE i \in 1..Len(s) : s[i] = c
In(c, s) == \E i \in 1..Len(s) : s[i] = c

IsHexDigit(c) == In(c, DecDigits) \/ In(c, LowerHex) \/ In(c, UpperHex)
HexValue(c) ==
    IF In(c, DecDigits) THEN IndexOf(c, DecDigits) - 1
    ELSE IF In(c, LowerHex) THEN IndexOf(c, LowerHex) + 9
    ELSE IndexOf(c, UpperHex) + 9

\* code order of the characters an address is written with
CharCode(c) == IF c = "." THEN 46 ELSE 48 + IndexOf(c, DecDigits) - 1

RECURSIVE StrLess(_, _)
\* Python's s < t on strings
StrLess(s, t) ==
    IF t = << >> THEN FALSE
    ELSE IF s = << >> THEN TRUE
    ELSE IF s[1] # t[1] THEN CharCode(s[1]) < CharCode(t[1])
    ELSE StrLess(Tail(s), Tail(t))

---------------------------------------------------------------------------
(* int(text, 16) *)

IsSpace(c) == c = " "

RECURSIVE LStrip(_)
LStrip(s) == IF s # << >> /\ IsSpace(s[1]) THEN LStrip(Tail(s)) ELSE s
RECURSIVE RStrip(_)
RStrip(s) ==
    IF s # << >> /\ IsSpace(s[Len(s)]) THEN RStrip(SubSeq(s, 1, Len(s) - 1)) ELSE s

DropSign(s) == IF s # << >> /\ s[1] \in {"+", "-"} THEN Tail(s) ELSE s

\* the 0x / 0X prefix base 16 accepts, and the one underscore allowed after it
DropPrefix(s) ==
    IF Len(s) >= 2 /\ s[1] = "0" /\ s[2] \in {"x", "X"}
    THEN LET t == SubSeq(s, 3, Len(s))
         IN  IF t # << >> /\ t[1] = "_" THEN Tail(t) ELSE t
    ELSE s

\* digits, single underscores only between two digits
WellFormedDigits(s) ==
    /\ s # << >>
    /\ s[1] # "_"
    /\ s[Len(s)] # "_"
    /\ \A i \in 1..Len(s) : IsHexDigit(s[i]) \/ s[i] = "_"
    /\ \A i \in 1..(Len(s) - 1) : ~(s[i] = "_" /\ s[i + 1] = "_")

RECURSIVE DigitsValue(_, _)
DigitsValue(s, acc) ==
    IF s = << >> THEN acc
    ELSE IF s[1] = "_" THEN DigitsValue(Tail(s), acc)
    ELSE DigitsValue(Tail(s), Shift16(acc, HexValue(s[1])))

\* Python's int(s, 16): Some(value), or None where it raises ValueError
PyIntBase16(s) ==
    LET t == RStrip(LStrip(s))
        neg == t # << >> /\ t[1] = "-"
        d == DropPrefix(DropSign(t))
    IN  IF ~WellFormedDigits(d) THEN None
        ELSE LET v == DigitsValue(d, Zero)
             IN  Some(IF neg THEN Minus(Zero, v) ELSE v)

hex_to_decimal(hex_value) == PyIntBase16(hex_value)

SeqStart == 20
SeqEnd == 28

\* a mutant of extract_sequence_number: the field read two characters early
extract_sequence_number_shifted(data) ==
    IF IsSome(data) /\ Len(Val(data)) >= SeqEnd
    THEN hex_to_decimal(Slice(Val(data), SeqStart - 2, SeqEnd - 2))
    ELSE None

\* feature_test.py: the extractor of the pcap pipeline
extract_sequence_number(data) ==
    IF IsSome(data) /\ Len(Val(data)) >= SeqEnd
    THEN hex_to_decimal(Slice(Val(data), SeqStart, SeqEnd))
    ELSE None

\* PCAP_Script.py: the extractor of the CSV checkers; it slices without a
\* length test, and any exception (a None argument) gives None
extract_sequence_number_csv(data) ==
    IF IsSome(data)
    THEN hex_to_decimal(Slice(Val(data), SeqStart, SeqEnd))
    ELSE None

---------------------------------------------------------------------------
(* The pcap pipeline: records of the capture decoder *)

Txt239_50 == <<"2", "3", "9", ".", "5", "0", ".">>
G1 == Txt239_50 \o <<"1", ".", "1">>
G2 == Txt239_50 \o <<"1", ".", "2">>
OtherDest == <<"1", "0", ".", "0", ".", "0", ".", "1">>
S1 == <<"1", "0", ".", "1", ".", "1", ".", "1">>
S2 == <<"1", "0", ".", "1", ".", "1", ".", "2">>

Z4 == <<"0", "0", "0", "0">>
Hdr20 == Z4 \o Z4 \o Z4 \o Z4 \o Z4
Bad20 == <<"3", "1", "0", "0">> \o Z4 \o Z4 \o Z4 \o Z4
HexChars == DecDigits \o UpperHex
\* the 8 hex digits of k, 0 <= k < 16
Field(k) == Z4 \o <<"0", "0", "0", HexChars[k + 1]>>
F4 == <<"F", "F", "F", "F">>

Len60 == <<"6", "0">>
Len65 == <<"6", "5">>
Len66 == <<"6", "6">>
Len200 == <<"2", "0", "0">>

RawRec(dst, src, len, data) ==
    [Source |-> src, Destination |-> dst, Length |-> len, Data |-> data]

Good(dst, src, k) == RawRec(dst, src, Len200, Some(Hdr20 \o Field(k)))

\* pd.to_numeric(text, errors="coerce") of a frame.len field: Some(n), or None (NaN)
ToNumeric(s) ==
    LET F[i \in 0..Len(s)] ==
            IF i = 0 THEN 0 ELSE F[i - 1] * 10 + (IndexOf(s[i], DecDigits) - 1)
    IN  IF s # << >> /\ \A i \in 1..Len(s) : In(s[i], DecDigits)
        THEN Some(F[Len(s)]) ELSE None

MulticastPrefix == Txt239_50
MalformedMarker == <<"3", "1", "0", "0">>
MalformedMaxLength == 65

\* df["Destination"].str.startswith("239.50.")
KeepDestination(r) == StartsWith(r.Destination, MulticastPrefix)

\* df["Data"].str.startswith("3100", na=False) & (df["Length"] <= 65);
\* a comparison with NaN is False
IsDeformed(r) ==
    /\ IsSome(r.Data) /\ StartsWith(Val(r.Data), MalformedMarker)
    /\ IsSome(ToNumeric(r.Length)) /\ Val(ToNumeric(r.Length)) <= MalformedMaxLength

\* the two filters of extract_pcap_data, in one predicate
KeepRecord(r) == KeepDestination(r) /\ ~IsDeformed(r)

\* extract_pcap_data up to the malformed filter: the filtered record set
FilteredRows(rs) == SelectSeq(rs, KeepRecord)

\* the Sequence Number column
WithSequenceNumber(r) ==
    [No |-> r.No, Source |-> r.Source, Destination |-> r.Destination,
     Length |-> ToNumeric(r.Length), Data |-> r.Data,
     SequenceNumber |-> extract_sequence_number(r.Data)]

HasSequenceNumber(r) == IsSome(r.SequenceNumber)
Unwrapped(r) == [r EXCEPT !.SequenceNumber = Val(@)]

Map(f(_), s) == [i \in 1..Len(s) |-> f(s[i])]

\* the DataFrame extract_pcap_data returns: the rows that pass the filters and
\* carry a sequence number, in capture order, the number as an integer
ExtractPcapDataFrame(rs) ==
    Map(Unwrapped, SelectSeq(Map(WithSequenceNumber, FilteredRows(rs)), HasSequenceNumber))

---------------------------------------------------------------------------
(* The pcap pipeline: detect_sequence_gaps *)

RECURSIVE SortedOrdersOf(_, _)
\* the orders (sequences of row indices) in which a sort by Sequence Number may
\* leave the rows: ascending, rows of equal number in any order (sort_values's
\* default kind is not stable)
SortedOrdersOf(rows, idx) ==
    IF idx = {} THEN {<< >>}
    ELSE LET least == {i \in idx : \A j \in idx :
                          Le(rows[i].SequenceNumber, rows[j].SequenceNumber)}
         IN  UNION {{<<i>> \o t : t \in SortedOrdersOf(rows, idx \ {i})} : i \in least}

\* a mutant of SortOrders: the rows left in capture order
CaptureOrderOnly(rows) == {[i \in 1..Len(rows) |-> i]}

SortOrders(rows) == SortedOrdersOf(rows, 1..Len(rows))

\* a mutant of Gap: the difference taken the other way round
GapReversed(no, expected, actual) ==
    [No |-> no, expected |-> expected, actual |-> actual,
     missing |-> Minus(expected, actual)]

Gap(no, expected, actual) ==
    [No |-> no, expected |-> expected, actual |-> actual,
     missing |-> Minus(actual, expected)]

\* a mutant of WalkGaps: only a larger number than expected is a gap
WalkForwardGapsOnly(packets) ==
    LET IsGap(i) == i > 1 /\ Lt(Inc(packets[i - 1].SequenceNumber), packets[i].SequenceNumber)
        F[i \in 0..Len(packets)] ==
            IF i = 0 THEN << >>
            ELSE IF IsGap(i)
                 THEN Append(F[i - 1], Gap(packets[i].No, Inc(packets[i - 1].SequenceNumber),
                                           packets[i].SequenceNumber))
                 ELSE F[i - 1]
    IN  F[Len(packets)]

\* the pairwise walk over the sorted rows of one bucket
WalkGaps(packets) ==
    LET IsGap(i) == i > 1 /\ Inc(packets[i - 1].SequenceNumber) # packets[i].SequenceNumber
        F[i \in 0..Len(packets)] ==
            IF i = 0 THEN << >>
            ELSE IF IsGap(i)
                 THEN Append(F[i - 1], Gap(packets[i].No, Inc(packets[i - 1].SequenceNumber),
                                           packets[i].SequenceNumber))
                 ELSE F[i - 1]
    IN  F[Len(packets)]

StatusOutOfOrder == "Out-of-order detected"
StatusInOrder == "All in order"
StatusNoPackets == "No packets found"
Dash == "-"

\* a mutant of BucketRows: one row for a bucket with gaps, holding the first gap
BucketRowsFirstGapOnly(group, source, total, gaps) ==
    IF gaps # << >>
    THEN << <<group, source, total, StatusOutOfOrder,
              Some([expected |-> gaps[1].expected, actual |-> gaps[1].actual, No |-> gaps[1].No])>> >>
    ELSE << <<group, source, total, StatusInOrder, None>> >>

\* the rows detect_sequence_gaps appends to summary for one bucket: one row per
\* gap, or one row saying all is in order.  The Sequence Info cell is None for "-"
BucketRows(group, source, total, gaps) ==
    IF gaps # << >>
    THEN [i \in 1..Len(gaps) |->
            <<group, source, total, StatusOutOfOrder,
              Some([expected |-> gaps[i].expected, actual |-> gaps[i].actual, No |-> gaps[i].No])>>]
    ELSE << <<group, source, total, StatusInOrder, None>> >>

\* what one pass of the loop over the sources prints and appends, the bucket's
\* rows sorted in the order o
BucketOutcome(group, source, packets, o) ==
    LET sorted == [i \in 1..Len(o) |-> packets[o[i]]]
        gaps == WalkGaps(sorted)
    IN  [printed |-> <<[empty |-> FALSE, Destination |-> group, Source |-> source,
                        total |-> Len(sorted), gaps |-> gaps]>>,
         rows |-> BucketRows(group, source, Len(sorted), gaps)]

\* the row of a selected group without packets: four cells for five columns
EmptyGroupOutcome(group) ==
    [printed |-> <<[empty |-> TRUE, Destination |-> group, Source |-> << >>,
                    total |-> 0, gaps |-> << >>]>>,
     rows |-> << <<group, 0, StatusNoPackets, Dash>> >>]

RECURSIVE SortSources(_)
\* groupby("Source") iterates the sources in ascending order
SortSources(S) ==
    IF S = {} THEN << >>
    ELSE LET m == CHOOSE s \in S : \A t \in S : s = t \/ StrLess(s, t)
         IN  <<m>> \o SortSources(S \ {m})

\* a mutant of GroupRows: the rows of every group, whatever group was asked for
GroupRowsAnyGroup(d, group) == d

\* df[df["Destination"] == group]
GroupRows(d, group) ==
    LET OfGroup(r) == r.Destination = group IN SelectSeq(d, OfGroup)

\* the outcomes of the loop body for one selected group: a set, one element for
\* each way the sorts may order equal sequence numbers
RECURSIVE SourcesOutcomes(_, _, _)
SourcesOutcomes(group, group_df, sources) ==
    IF sources = << >> THEN {[printed |-> << >>, rows |-> << >>]}
    ELSE LET source == Head(sources)
             OfSource(r) == r.Source = source
             packets == SelectSeq(group_df, OfSource)
         IN  {[printed |-> a.printed \o b.printed, rows |-> a.rows \o b.rows] :
                a \in {BucketOutcome(group, source, packets, o) : o \in SortOrders(packets)},
                b \in SourcesOutcomes(group, group_df, Tail(sources))}

GroupOutcomes(d, group) ==
    LET group_df == GroupRows(d, group)
    IN  IF group_df = << >> THEN {EmptyGroupOutcome(group)}
        ELSE SourcesOutcomes(group, group_df,
                             SortSources({group_df[i].Source : i \in 1..Len(group_df)}))

RECURSIVE DetectOutcomes(_, _)
\* the (printed, summary) results detect_sequence_gaps may build for a DataFrame
\* and a list of selected groups
DetectOutcomes(d, groups) ==
    IF groups = << >> THEN {[printed |-> << >>, rows |-> << >>]}
    ELSE {[printed |-> a.printed \o b.printed, rows |-> a.rows \o b.rows] :
            a \in GroupOutcomes(d, Head(groups)),
            b \in DetectOutcomes(d, Tail(groups))}

SummaryColumns == 5

\* pd.DataFrame(summary, columns=[5 names]) raises when no row has 5 cells
ExportRaises(rows) ==
    rows # << >> /\ \A i \in 1..Len(rows) : Len(rows[i]) < SummaryColumns

---------------------------------------------------------------------------
(* The pcap pipeline: actions *)

NoExt == [called |-> "none", result |-> None]
NoOut1 == [ran |-> FALSE, malformed |-> << >>, processed |-> << >>, lines |-> << >>]
NoOut2 == [ran |-> FALSE, processed |-> << >>, lines |-> << >>, summary |-> << >>]

Init ==
    /\ raw = << >> /\ df = << >> /\ selected_groups = << >>
    /\ printed = << >> /\ summary = << >>
    /\ pc = "decode"
    /\ hex_data = None /\ ext = NoExt
    /\ csv = << >> /\ out1 = NoOut1 /\ out2 = NoOut2

\* the capture decoder yields one more record; frame.number counts from 1
Decode(r, max) ==
    /\ pc = "decode"
    /\ Len(raw) < max
    /\ raw' = Append(raw, [No |-> Len(raw) + 1, Source |-> r.Source,
                           Destination |-> r.Destination, Length |-> r.Length,
                           Data |-> r.Data])
    /\ UNCHANGED <<df, selected_groups, printed, summary, pc, extractorVars, csvVars>>

\* extract_pcap_data returns a DataFrame
ExtractPcapData ==
    /\ pc = "decode"
    /\ df' = ExtractPcapDataFrame(raw)
    /\ pc' = "extracted"
    /\ UNCHANGED <<raw, selected_groups, printed, summary, extractorVars, csvVars>>

\* extract_pcap_data returns None (tshark failed or printed nothing), and
\* process_pcap_files skips the file
ExtractFails ==
    /\ pc = "decode"
    /\ raw = << >>
    /\ pc' = "skipped"
    /\ UNCHANGED <<pipelineVars, extractorVars, csvVars>>

\* the list of groups detect_sequence_gaps is called with
SelectGroups(groups) ==
    /\ pc = "extracted"
    /\ selected_groups' = groups
    /\ pc' = "selected"
    /\ UNCHANGED <<raw, df, printed, summary, extractorVars, csvVars>>

\* detect_sequence_gaps, from its first line to the export of the workbook
DetectSequenceGaps ==
    /\ pc = "selected"
    /\ \E o \in DetectOutcomes(df, selected_groups) :
          /\ printed' = o.printed
          /\ summary' = o.rows
          /\ pc' = IF ExportRaises(o.rows) THEN "export_failed" ELSE "exported"
    /\ UNCHANGED <<raw, df, selected_groups, extractorVars, csvVars>>

Analysed == pc \in {"exported", "export_failed"}

MaxRecords == 3
MaxSelected == 2

\* the records of the general pipeline
Records ==
    {Good(G1, S1, k) : k \in {2, 4}}
    \cup {Good(G1, S2, 2), Good(G2, S1, 1), Good(OtherDest, S1, 1)}
    \cup {RawRec(G1, S1, Len200, Some(Z4)),
          RawRec(G1, S1, Len60, Some(Bad20 \o Field(3))),
          RawRec(G1, S1, Len200, Some(Bad20 \o Field(3)))}

GroupUniverse == {G1, G2}

RECURSIVE ListsUpTo(_, _)
ListsUpTo(S, n) ==
    IF n = 0 THEN {<< >>}
    ELSE ListsUpTo(S, n - 1)
         \cup {Append(l, x) : l \in {m \in ListsUpTo(S, n - 1) : Len(m) = n - 1}, x \in S}

Selections == ListsUpTo(GroupUniverse, MaxSelected)

Next ==
    \/ \E r \in Records : Decode(r, MaxRecords)
    \/ ExtractPcapData
    \/ ExtractFails
    \/ \E g \in Selections : SelectGroups(g)
    \/ DetectSequenceGaps

Spec == Init /\ [][Next]_vars

---------------------------------------------------------------------------
(* Groups and sources: records of three buckets, one without a sequence number,
   one filtered by its destination and one of the malformed pattern *)

PartitionRecords ==
    {Good(G1, S1, 2), Good(G1, S2, 2), Good(G2, S1, 1), Good(OtherDest, S1, 1),
     RawRec(G1, S1, Len200, Some(Z4)),
     RawRec(G2, S1, Len60, Some(Bad20 \o Field(3)))}

NextPartition ==
    \/ \E r \in PartitionRecords : Decode(r, MaxRecords)
    \/ ExtractPcapData
    \/ ExtractFails
    \/ \E g \in Selections : SelectGroups(g)
    \/ DetectSequenceGaps

SpecPartition == Init /\ [][NextPartition]_vars

---------------------------------------------------------------------------
(* One bucket: six packets, two of them with the same sequence number, captured
   in any order, each at most once *)

MaxBucket == 5

BucketPackets ==
    {Good(G1, S1, k) : k \in 1..5}
    \cup {RawRec(G1, S1, Len200, Some(Hdr20 \o Field(2) \o Z4))}

Fields(r) == RawRec(r.Destination, r.Source, r.Length, r.Data)

DecodePacket(r) ==
    /\ \A i \in 1..Len(raw) : Fields(raw[i]) # r
    /\ Decode(r, MaxBucket)

NextBucket ==
    \/ \E r \in BucketPackets : DecodePacket(r)
    \/ ExtractPcapData
    \/ ExtractFails
    \/ SelectGroups(<<G1>>)
    \/ DetectSequenceGaps

SpecBucket == Init /\ [][NextBucket]_vars

---------------------------------------------------------------------------
(* One bucket whose feed wraps at 2^32 *)

MaxWrap == 4

WrapFields == {F4 \o <<"F", "F", "F", "E">>, F4 \o F4, Z4 \o Z4, Z4 \o <<"0", "0", "0", "1">>}
WrapRecords == {RawRec(G1, S1, Len200, Some(Hdr20 \o f)) : f \in WrapFields}

NextWrap ==
    \/ \E r \in WrapRecords : Decode(r, MaxWrap)
    \/ ExtractPcapData
    \/ ExtractFails
    \/ SelectGroups(<<G1>>)
    \/ DetectSequenceGaps

SpecWrap == Init /\ [][NextWrap]_vars

---------------------------------------------------------------------------
(* The end-to-end scenario: 10, 11, 13, 12, 14 and one record without a
   sequence number or of the malformed pattern, at any place of the capture *)

Scenario == <<Good(G1, S1, 10), Good(G1, S1, 11), Good(G1, S1, 13),
              Good(G1, S1, 12), Good(G1, S1, 14)>>

OddRecords ==
    {RawRec(G1, S1, Len200, None),
     RawRec(G1, S1, Len200, Some(<< >>)),
     RawRec(G1, S1, Len200, Some(Z4)),
     RawRec(G1, S1, Len200, Some(Hdr20 \o Z4 \o <<"0", "0", "7", "G">>)),
     RawRec(G1, S1, Len60, Some(Bad20 \o Field(15)))}

IsOdd(r) == Fields(r) \in OddRecords
OddCount(rs) == Cardinality({i \in 1..Len(rs) : IsOdd(rs[i])})

DecodeScenario(r) ==
    /\ \/ r \in OddRecords /\ OddCount(raw) = 0
       \/ /\ Len(raw) - OddCount(raw) < Len(Scenario)
          /\ r = Scenario[Len(raw) - OddCount(raw) + 1]
    /\ Decode(r, Len(Scenario) + 1)

NextE2E ==
    \/ \E r \in OddRecords \cup {Scenario[i] : i \in 1..Len(Scenario)} : DecodeScenario(r)
    \/ ExtractPcapData
    \/ ExtractFails
    \/ SelectGroups(<<G1>>)
    \/ DetectSequenceGaps

SpecE2E == Init /\ [][NextE2E]_vars

---------------------------------------------------------------------------
(* Vocabulary of the properties *)

\* a + b
Plus(a, b) ==
    LET l == a.lo + b.lo
    IN  IF l >= Base THEN Num(a.hi + b.hi + 1, l - Base) ELSE Num(a.hi + b.hi, l)

N(k) == Num(0, k)

RemoveAt(s, i) == SubSeq(s, 1, i - 1) \o SubSeq(s, i + 1, Len(s))

RECURSIVE Ascending(_)
\* the numbers of s in ascending order
Ascending(s) ==
    IF s = << >> THEN << >>
    ELSE LET i == CHOOSE j \in 1..Len(s) : \A k \in 1..Len(s) : Le(s[j], s[k])
         IN  <<s[i]>> \o Ascending(RemoveAt(s, i))

\* the sequence numbers of the bucket (dst, src) of a DataFrame, in capture order
BucketValues(d, dst, src) ==
    LET InBucket(r) == r.Destination = dst /\ r.Source = src
        Number(r) == r.SequenceNumber
    IN  Map(Number, SelectSeq(d, InBucket))

\* the positions i > 1 of t where t[i] # t[i-1] + 1, ascending
GapPositions(t) ==
    LET F[i \in 0..Len(t)] ==
            IF i = 0 THEN << >>
            ELSE IF i > 1 /\ t[i] # Inc(t[i - 1]) THEN Append(F[i - 1], i) ELSE F[i - 1]
    IN  F[Len(t)]

Buckets == {i \in 1..Len(printed) : ~printed[i].empty}
ValuesOf(i) == BucketValues(df, printed[i].Destination, printed[i].Source)

Triple(g) == [expected |-> g.expected, actual |-> g.actual, missing |-> g.missing]
Triples(gaps) == Map(Triple, gaps)

\* the summary rows of a bucket
RowsOf(rows, dst, src) ==
    LET Of(r) == Len(r) = SummaryColumns /\ r[1] = dst /\ r[2] = src
    IN  SelectSeq(rows, Of)

Count(s, P(_)) == Cardinality({i \in 1..Len(s) : P(s[i])})

\* the rows of a DataFrame with two neighbours in the other order
SwapRows(d, i) ==
    [j \in 1..Len(d) |-> IF j = i THEN d[i + 1] ELSE IF j = i + 1 THEN d[i] ELSE d[j]]

\* a result of detect_sequence_gaps without the frame numbers
View(o) ==
    LET B(e) == [Destination |-> e.Destination, Source |-> e.Source, empty |-> e.empty,
                 total |-> e.total, triples |-> Triples(e.gaps)]
        R(r) == IF Len(r) = SummaryColumns
                THEN <<r[1], r[2], r[3], r[4],
                       IF r[5] = None THEN None
                       ELSE Some(<<Val(r[5]).expected, Val(r[5]).actual>>)>>
                ELSE r
    IN  [buckets |-> Map(B, o.printed), rows |-> Map(R, o.rows)]

IsRun(vals) ==
    /\ \A i, j \in 1..Len(vals) : i # j => vals[i] # vals[j]
    /\ \A i \in 1..Len(vals) :
          \/ \A j \in 1..Len(vals) : Le(vals[i], vals[j])
          \/ \E j \in 1..Len(vals) : Inc(vals[j]) = vals[i]

---------------------------------------------------------------------------
(* C1 *)

\* C1: for every bucket analysed by detect_sequence_gaps, the gaps reported are,
\* in order, the positions i > 1 of the bucket's sequence numbers sorted ascending
\* where t[i] # t[i-1] + 1, each with expected = t[i-1] + 1, actual = t[i] and
\* expected + missing = actual; no other position gives a gap.
C1_GapsAreTheBreaksOfTheSortedBucket ==
    Analysed =>
        \A b \in Buckets :
            LET t == Ascending(ValuesOf(b))
                pos == GapPositions(t)
                gaps == printed[b].gaps
            IN  /\ printed[b].total = Len(t)
                /\ Len(gaps) = Len(pos)
                /\ \A k \in 1..Len(pos) :
                      /\ gaps[k].expected = Inc(t[pos[k] - 1])
                      /\ gaps[k].actual = t[pos[k]]
                      /\ Plus(gaps[k].expected, gaps[k].missing) = gaps[k].actual

\* a bucket captured out of sequence order for which a gap is reported
C1_Witness ==
    /\ Analysed
    /\ \E b \in Buckets :
          /\ ValuesOf(b) # Ascending(ValuesOf(b))
          /\ Len(printed[b].gaps) >= 1
          /\ Len(printed[b].gaps) < Len(ValuesOf(b)) - 1

---------------------------------------------------------------------------
(* C3 *)

\* C3: the result of detect_sequence_gaps does not depend on the capture order:
\* with any two neighbouring rows of its DataFrame exchanged (and so, step by
\* step, with the rows in any order) it reports the same (expected, actual,
\* missing) triples, totals and statuses; and a bucket whose numbers are a run of
\* consecutive integers has no gap and status "All in order".
C3_ResultIndependentOfCaptureOrder ==
    Analysed =>
        /\ \A i \in 1..(Len(df) - 1) :
              View([printed |-> printed, rows |-> summary])
                  \in {View(o) : o \in DetectOutcomes(SwapRows(df, i), selected_groups)}
        /\ \A b \in Buckets :
              IsRun(ValuesOf(b)) =>
                  /\ printed[b].gaps = << >>
                  /\ LET rows == RowsOf(summary, printed[b].Destination, printed[b].Source)
                     IN  Len(rows) = 1 /\ rows[1][4] = StatusInOrder

\* the numbers 1..5 captured in another order than ascending, found in order
C3_Witness ==
    /\ Analysed
    /\ \E b \in Buckets :
          /\ Ascending(ValuesOf(b)) = <<N(1), N(2), N(3), N(4), N(5)>>
          /\ ValuesOf(b) # Ascending(ValuesOf(b))
          /\ printed[b].gaps = << >>
    /\ summary = << <<G1, S1, 5, StatusInOrder, None>> >>

---------------------------------------------------------------------------
(* C4 *)

IsDuplicateGap(g) == Inc(g.actual) = g.expected
IsForwardGap(g) == Lt(g.expected, g.actual)

\* C4: in the walk over the sorted bucket every repeated sequence number gives a
\* gap with missing = -1, every forward jump gives a gap with missing > 0, a gap
\* is one or the other, and no gap has missing = 0; the numbers 1, 2, 2, 3 give
\* exactly one gap, with missing = -1.
C4_DuplicateIsMinusOneGapIsPositive ==
    Analysed =>
        \A b \in Buckets :
            LET vals == ValuesOf(b)
                set == {vals[i] : i \in 1..Len(vals)}
                gaps == printed[b].gaps
                MissingMinusOne(g) == g.missing = MinusOne
                MissingPositive(g) == IsPositive(g.missing)
            IN  /\ \A k \in 1..Len(gaps) :
                      /\ gaps[k].missing # Zero
                      /\ IsDuplicateGap(gaps[k]) <=> gaps[k].missing = MinusOne
                      /\ IsForwardGap(gaps[k]) <=> IsPositive(gaps[k].missing)
                      /\ IsDuplicateGap(gaps[k]) \/ IsForwardGap(gaps[k])
                /\ Count(gaps, MissingMinusOne) = Len(vals) - Cardinality(set)
                /\ Count(gaps, MissingPositive) =
                      Cardinality({v \in set : /\ \E w \in set : Lt(w, v)
                                               /\ \A w \in set : Inc(w) # v})
                /\ Ascending(vals) = <<N(1), N(2), N(2), N(3)>> =>
                      Len(gaps) = 1 /\ gaps[1].missing = MinusOne

\* the numbers 1, 2, 2, 3 analysed: one gap, a duplicate
C4_Witness ==
    /\ Analysed
    /\ \E b \in Buckets :
          /\ Ascending(ValuesOf(b)) = <<N(1), N(2), N(2), N(3)>>
          /\ Len(printed[b].gaps) = 1
          /\ printed[b].gaps[1].missing = MinusOne

---------------------------------------------------------------------------
(* C2 *)

\* the six records of the scenario are captured: the five numbered ones in their
\* order, and the odd one
ScenarioCaptured ==
    /\ Len(raw) = Len(Scenario) + 1
    /\ OddCount(raw) = 1
    /\ LET NotOdd(r) == ~IsOdd(r) IN Map(Fields, SelectSeq(raw, NotOdd)) = Scenario

ScenarioBucket ==
    /\ Len(printed) = 1
    /\ ~printed[1].empty
    /\ printed[1].Destination = G1 /\ printed[1].Source = S1
    /\ printed[1].total = 5
    /\ ValuesOf(1) = <<N(10), N(11), N(13), N(12), N(14)>>

\* C2 as stated: the scenario gives total 5, status anomalies-detected and exactly
\* one gap, expected 12, actual 13, missing 1.
C2_AsStated ==
    (Analysed /\ ScenarioCaptured) =>
        /\ ScenarioBucket
        /\ Triples(printed[1].gaps) =
              <<[expected |-> N(12), actual |-> N(13), missing |-> N(1)]>>
        /\ summary # << >>
        /\ \A i \in 1..Len(summary) :
              /\ Len(summary[i]) = SummaryColumns
              /\ <<summary[i][1], summary[i][2], summary[i][3], summary[i][4]>>
                    = <<G1, S1, 5, StatusOutOfOrder>>

\* C2, amended: the six records of the scenario (numbers 10, 11, 13, 12, 14 in
\* capture order and one record without a number or of the malformed pattern)
\* give one bucket with total 5, no gap at all, and the single summary row
\* "All in order": the sort puts 12 before 13.
C2_ScenarioIsInOrder ==
    (Analysed /\ ScenarioCaptured) =>
        /\ ScenarioBucket
        /\ printed[1].gaps = << >>
        /\ summary = << <<G1, S1, 5, StatusInOrder, None>> >>
        /\ pc = "exported"

\* the scenario analysed
C2_Witness ==
    /\ Analysed /\ ScenarioCaptured
    /\ selected_groups = <<G1>>
    /\ Len(df) = 5
    /\ Len(summary) = 1 /\ summary[1][4] = StatusInOrder

---------------------------------------------------------------------------
(* C5 *)

RawNumber(r) == extract_sequence_number(r.Data)

\* the feed wraps: the number 2^32 - 1 is followed, in capture order, by 0
FeedWraps ==
    \E i \in 1..(Len(raw) - 1) :
        RawNumber(raw[i]) = Some(MaxU32) /\ RawNumber(raw[i + 1]) = Some(Zero)

Pow31 == Num(Base \div 2, 0)
HugeNegative(n) == Lt(n, Minus(Zero, Pow31))
HugePositive(n) == Lt(Pow31, n)

\* the gaps printed, of all buckets
PrintedGaps ==
    UNION {{printed[b].gaps[k] : k \in 1..Len(printed[b].gaps)} : b \in Buckets}

\* C5 as stated: when the feed wraps, a gap with a huge negative missing value
\* is reported.
C5_AsStated ==
    (Analysed /\ FeedWraps) => \E g \in PrintedGaps : HugeNegative(g.missing)

\* C5, amended: sequence numbers are 32-bit and wraparound is not special-cased;
\* because the bucket is sorted first, the numbers after the wrap come first and
\* no gap has a missing value below -1; for 2^32-2, 2^32-1, 0, 1 in capture order
\* the wrap shows as exactly one gap, expected 2, actual 2^32-2, and the huge
\* positive missing value 2^32-4.
C5_WrapIsAPositiveGap ==
    Analysed =>
        /\ \A i \in 1..Len(df) : InU32(df[i].SequenceNumber)
        /\ \A g \in PrintedGaps : ~Lt(g.missing, MinusOne)
        /\ Map(RawNumber, raw) = <<Some(Num(Base - 1, Base - 2)), Some(MaxU32),
                                   Some(Zero), Some(N(1))>> =>
              /\ Len(printed) = 1
              /\ Triples(printed[1].gaps) =
                    <<[expected |-> N(2), actual |-> Num(Base - 1, Base - 2),
                       missing |-> Num(Base - 1, Base - 4)]>>
              /\ HugePositive(printed[1].gaps[1].missing)

\* the wrapping feed 2^32-2, 2^32-1, 0, 1 analysed
C5_Witness ==
    /\ Analysed /\ FeedWraps
    /\ Map(RawNumber, raw) = <<Some(Num(Base - 1, Base - 2)), Some(MaxU32),
                               Some(Zero), Some(N(1))>>
    /\ Len(printed) = 1 /\ Len(printed[1].gaps) = 1

---------------------------------------------------------------------------
(* extract_sequence_number alone: the definition of feature_test.py and the
   definition PCAP_Script.py leaves in place, on the same payloads *)

Txt(f) == Z4 \o f
Samples ==
    {Txt(<<"0", "0", "7", "B">>), Txt(<<"0", "0", "7", "b">>), F4 \o F4, Z4 \o Z4,
     <<"-", "0", "0", "0", "0", "0", "7", "B">>,
     <<"+", "0", "0", "0", "0", "0", "7", "B">>,
     <<"0", "x", "0", "0", "0", "0", "7", "B">>,
     <<"0", "0", "_", "0", "0", "0", "7", "B">>,
     <<" ", "0", "0", "0", "0", "0", "7", "B">>,
     Txt(<<"0", "0", "7", "G">>),
     <<"0", ":", "0", "0", ":", "0", "0", ":">>,
     <<"0", "0", "0", "0", "0", "7", "B">>,
     <<"7", "B">>,
     << >>}
Heads == {<< >>, Z4 \o Z4, Hdr20, Bad20}
Tails == {<< >>, <<"0", "0">>}

Payloads == {None} \cup {Some(h \o f \o t) : h \in Heads, f \in Samples, t \in Tails}

InitExtract ==
    /\ raw = << >> /\ df = << >> /\ selected_groups = << >>
    /\ printed = << >> /\ summary = << >>
    /\ pc = "payload"
    /\ hex_data = None /\ ext = NoExt
    /\ csv = << >> /\ out1 = NoOut1 /\ out2 = NoOut2

\* a Data cell reaches the extractor
ReceivePayload(p) ==
    /\ pc = "payload"
    /\ hex_data' = p
    /\ pc' = "call"
    /\ UNCHANGED <<pipelineVars, ext, csvVars>>

\* feature_test.py:39-44 is called
CallExtractFeature ==
    /\ pc = "call"
    /\ ext' = [called |-> "feature_test", result |-> extract_sequence_number(hex_data)]
    /\ pc' = "returned"
    /\ UNCHANGED <<pipelineVars, hex_data, csvVars>>

\* PCAP_Script.py:118-123 is called
CallExtractScript ==
    /\ pc = "call"
    /\ ext' = [called |-> "PCAP_Script", result |-> extract_sequence_number_csv(hex_data)]
    /\ pc' = "returned"
    /\ UNCHANGED <<pipelineVars, hex_data, csvVars>>

NextExtract ==
    \/ \E p \in Payloads : ReceivePayload(p)
    \/ CallExtractFeature
    \/ CallExtractScript

SpecExtract == InitExtract /\ [][NextExtract]_vars

---------------------------------------------------------------------------
(* C7 *)

TooShort(p) == p = None \/ Len(Val(p)) < SeqEnd
SeqField(p) == SubSeq(Val(p), SeqStart + 1, SeqEnd)
EightHexDigits(f) == Len(f) = 8 /\ \A i \in 1..8 : IsHexDigit(f[i])

\* C7 as stated: extract_sequence_number returns None for an absent payload, for a
\* payload shorter than 28 characters and for one whose characters 20..28 are not
\* 8 hexadecimal digits; otherwise it returns the value of those digits, which is
\* in 0 .. 2^32-1.
C7_AsStated ==
    pc = "returned" =>
        /\ TooShort(hex_data) => ext.result = None
        /\ (~TooShort(hex_data) /\ ~EightHexDigits(SeqField(hex_data))) => ext.result = None
        /\ (~TooShort(hex_data) /\ EightHexDigits(SeqField(hex_data))) =>
              /\ ext.result = Some(DigitsValue(SeqField(hex_data), Zero))
              /\ InU32(Val(ext.result))

\* what holds of the definition of feature_test.py: None for an absent or short
\* payload, the value of the field when it is 8 hexadecimal digits
FeatureExtractorOnWellFormedFields ==
    (pc = "returned" /\ ext.called = "feature_test") =>
        /\ TooShort(hex_data) => ext.result = None
        /\ (~TooShort(hex_data) /\ EightHexDigits(SeqField(hex_data))) =>
              /\ ext.result = Some(DigitsValue(SeqField(hex_data), Zero))
              /\ InU32(Val(ext.result))

---------------------------------------------------------------------------
(* The CSV checkers of PCAP_Script.py *)

\* A cell of the Sequence Number column after Series.apply: an integer, NaN, or
\* the object None
IntCell(n) == [k |-> "int", v |-> n]
NaNCell == [k |-> "nan", v |-> Zero]
NoneCell == [k |-> "none", v |-> Zero]

\* Series.apply(extract_sequence_number): a column of integers and None becomes
\* a float column, None turned into NaN; a column of None only stays None
SequenceColumn(results) ==
    LET anyInt == \E i \in 1..Len(results) : IsSome(results[i])
        Cell(o) == IF IsSome(o) THEN IntCell(Val(o))
                   ELSE IF anyInt THEN NaNCell ELSE NoneCell
    IN  Map(Cell, results)

\* arithmetic with NaN
CellInc(c) == IF c.k = "int" THEN IntCell(Inc(c.v)) ELSE NaNCell
CellMinus(a, b) == IF a.k = "int" /\ b.k = "int" THEN IntCell(Minus(a.v, b.v)) ELSE NaNCell
\* a != b; NaN differs from everything
CellDiffers(a, b) == a.k # "int" \/ b.k # "int" \/ a.v # b.v

Txt239 == <<"2", "3", "9", ".">>
NaNText == <<"n", "a", "n">>
\* Series.astype(str) of a Data cell
AsStr(data) == IF IsSome(data) THEN Val(data) ELSE NaNText

\* the rows malformed_df takes (first checker)
IsMalformed1(r) ==
    \/ IsSome(ToNumeric(r.Length)) /\ Val(ToNumeric(r.Length)) <= MalformedMaxLength
    \/ r.Protocol # "UDP"
    \/ IsSome(r.Data) /\ StartsWith(Val(r.Data), MalformedMarker)

Kept1(r) == ~IsMalformed1(r) /\ StartsWith(r.Destination, Txt239)

RECURSIVE FirstSeen(_)
\* the distinct values of a sequence, in the order of their first appearance
FirstSeen(s) ==
    IF s = << >> THEN << >>
    ELSE LET NotHead(x) == x # Head(s)
         IN  <<Head(s)>> \o FirstSeen(SelectSeq(Tail(s), NotHead))

Dest(r) == r.Destination

\* the loop over the rows of one group (first checker): the lines it prints
Walk1(rows) ==
    LET F[i \in 0..Len(rows)] ==
            IF i = 0 THEN [prev |-> NoneCell, gaps |-> << >>]
            ELSE LET prev == F[i - 1].prev
                     cur == rows[i].SequenceNumber
                 IN  [prev |-> cur,
                      gaps |-> IF prev.k # "none" /\ CellDiffers(cur, CellInc(prev))
                               THEN Append(F[i - 1].gaps,
                                           [No |-> rows[i].No, expected |-> CellInc(prev),
                                            actual |-> cur,
                                            missing |-> CellMinus(CellMinus(cur, prev),
                                                                  IntCell(N(1)))])
                               ELSE F[i - 1].gaps]
    IN  F[Len(rows)].gaps

\* what the first checker prints for one group: the gaps, and then, whatever the
\* walk found, "All sequence numbers are in order!"
GroupReport1(dest, rows) ==
    [Destination |-> dest, gaps |-> Walk1(rows), in_order |-> TRUE]

\* the first checker, from read_csv to the export
FirstChecker(rows) ==
    LET kept == SelectSeq(rows, Kept1)
        cells == SequenceColumn([i \in 1..Len(kept) |->
                                    extract_sequence_number_csv(Some(AsStr(kept[i].Data)))])
        frame == [i \in 1..Len(kept) |->
                    [No |-> kept[i].No, Destination |-> kept[i].Destination,
                     SequenceNumber |-> cells[i]]]
        groups == FirstSeen(Map(Dest, frame))
        OfGroup(g) == LET P(r) == r.Destination = g IN SelectSeq(frame, P)
    IN  [ran |-> TRUE,
         malformed |-> SelectSeq(rows, IsMalformed1),
         processed |-> frame,
         lines |-> [i \in 1..Len(groups) |-> GroupReport1(groups[i], OfGroup(groups[i]))]]

\* the rows the second checker keeps
Kept2(r) ==
    /\ StartsWith(r.Destination, Txt239) /\ r.Protocol = "UDP"
    /\ IsSome(ToNumeric(r.Length)) /\ Val(ToNumeric(r.Length)) > MalformedMaxLength

\* the loop over the positions of one group (second checker): sequence_numbers
\* has the rows without a number dropped, packet_numbers has every row
Walk2(sequence_numbers, packet_numbers) ==
    LET F[i \in 0..Len(sequence_numbers)] ==
            IF i <= 1 THEN << >>
            ELSE IF Inc(sequence_numbers[i - 1]) # sequence_numbers[i]
                 THEN Append(F[i - 1], Gap(packet_numbers[i], Inc(sequence_numbers[i - 1]),
                                           sequence_numbers[i]))
                 ELSE F[i - 1]
    IN  F[Len(sequence_numbers)]

GroupReport2(dest, rows) ==
    LET HasNumber(r) == r.SequenceNumber.k = "int"
        Number(r) == r.SequenceNumber.v
        FrameNo(r) == r.No
        sequence_numbers == Map(Number, SelectSeq(rows, HasNumber))
        packet_numbers == Map(FrameNo, rows)
        gaps == Walk2(sequence_numbers, packet_numbers)
    IN  [Destination |-> dest, gaps |-> gaps, in_order |-> gaps = << >>,
         rows |-> IF gaps # << >>
                  THEN [i \in 1..Len(gaps) |->
                          <<dest, Len(sequence_numbers), StatusOutOfOrder,
                            Some([expected |-> gaps[i].expected, actual |-> gaps[i].actual,
                                  No |-> gaps[i].No])>>]
                  ELSE << <<dest, Len(sequence_numbers), StatusInOrder, None>> >>]

RECURSIVE Flatten(_)
Flatten(ss) == IF ss = << >> THEN << >> ELSE Head(ss) \o Flatten(Tail(ss))

\* the second checker, from read_csv to the export
SecondChecker(rows) ==
    LET kept == SelectSeq(rows, Kept2)
        cells == SequenceColumn([i \in 1..Len(kept) |->
                                    extract_sequence_number_csv(Some(AsStr(kept[i].Data)))])
        frame == [i \in 1..Len(kept) |->
                    [No |-> kept[i].No, Destination |-> kept[i].Destination,
                     SequenceNumber |-> cells[i]]]
        groups == SortSources({frame[i].Destination : i \in 1..Len(frame)})
        OfGroup(g) == LET P(r) == r.Destination = g IN SelectSeq(frame, P)
        reports == [i \in 1..Len(groups) |-> GroupReport2(groups[i], OfGroup(groups[i]))]
        Rows(rep) == rep.rows
        Line(rep) == [Destination |-> rep.Destination, gaps |-> rep.gaps,
                      in_order |-> rep.in_order]
    IN  [ran |-> TRUE, processed |-> frame, lines |-> Map(Line, reports),
         summary |-> Flatten(Map(Rows, reports))]

InitCsv ==
    /\ raw = << >> /\ df = << >> /\ selected_groups = << >>
    /\ printed = << >> /\ summary = << >>
    /\ pc = "csv"
    /\ hex_data = None /\ ext = NoExt
    /\ csv = << >> /\ out1 = NoOut1 /\ out2 = NoOut2

\* one more row of the CSV file; the No. column counts the rows
ReadCsvRow(r, max) ==
    /\ pc = "csv"
    /\ Len(csv) < max
    /\ csv' = Append(csv, [No |-> Len(csv) + 1, Destination |-> r.Destination,
                           Protocol |-> r.Protocol, Length |-> r.Length, Data |-> r.Data])
    /\ UNCHANGED <<pipelineVars, pc, extractorVars, out1, out2>>

RunFirstChecker ==
    /\ pc = "csv"
    /\ out1' = FirstChecker(csv)
    /\ pc' = "checked"
    /\ UNCHANGED <<pipelineVars, extractorVars, csv, out2>>

RunSecondChecker ==
    /\ pc = "csv"
    /\ out2' = SecondChecker(csv)
    /\ pc' = "checked"
    /\ UNCHANGED <<pipelineVars, extractorVars, csv, out1>>

MaxCsvRows == 3

\* a payload header with a letter in it: read_csv keeps such a column as text
HdrCsv == <<"0", "a">> \o SubSeq(Hdr20, 3, 20)
Txt239_51 == <<"2", "3", "9", ".", "5", "1", ".", "1", ".", "1">>

CsvRec(dst, proto, len, data) ==
    [Destination |-> dst, Protocol |-> proto, Length |-> len, Data |-> data]

CsvRows ==
    {CsvRec(G1, "UDP", Len200, Some(HdrCsv \o Field(k))) : k \in {1, 2, 4}}
    \cup {CsvRec(G2, "UDP", Len200, Some(HdrCsv \o Field(1))),
          CsvRec(G1, "UDP", Len60, Some(HdrCsv \o Field(3))),
          CsvRec(G1, "UDP", Len200, Some(Bad20 \o Z4 \o <<"0", "0", "0", "c">>)),
          CsvRec(G1, "UDP", Len60, Some(Bad20 \o Z4 \o <<"0", "0", "0", "c">>)),
          CsvRec(G1, "TCP", Len200, Some(HdrCsv \o Field(2))),
          CsvRec(OtherDest, "UDP", Len200, Some(HdrCsv \o Field(1))),
          CsvRec(Txt239_51, "UDP", Len200, Some(HdrCsv \o Field(1))),
          CsvRec(G1, "UDP", Len200, None),
          CsvRec(G1, "UDP", Len200, Some(HdrCsv \o <<"0", "5">>))}

NextCsv ==
    \/ \E r \in CsvRows : ReadCsvRow(r, MaxCsvRows)
    \/ RunFirstChecker
    \/ RunSecondChecker

SpecCsv == InitCsv /\ [][NextCsv]_vars

---------------------------------------------------------------------------
(* C6 *)

\* the exclusion rule of the claim, for a record with a Destination, a Length
\* and an optional Data
ClaimExcludes(r) ==
    \/ ~StartsWith(r.Destination, MulticastPrefix)
    \/ /\ IsSome(r.Data) /\ StartsWith(Val(r.Data), MalformedMarker)
       /\ IsSome(ToNumeric(r.Length)) /\ Val(ToNumeric(r.Length)) <= 65

FrameNos(rows) == {rows[i].No : i \in 1..Len(rows)}

\* the rule in extract_pcap_data: a record is in the DataFrame exactly when the
\* rule does not exclude it and it carries a sequence number
C6_InPipeline ==
    pc \in {"extracted", "selected", "exported", "export_failed"} =>
        \A i \in 1..Len(raw) :
            raw[i].No \in FrameNos(df) <=>
                (~ClaimExcludes(raw[i]) /\ RawNumber(raw[i]) # None)

\* the rule in the first CSV checker: a row is left out of the processed sheet
\* exactly when the rule excludes it
C6_InFirstChecker ==
    out1.ran => \A i \in 1..Len(csv) :
        csv[i].No \notin FrameNos(out1.processed) <=> ClaimExcludes(csv[i])

\* the rule in the second CSV checker
C6_InSecondChecker ==
    out2.ran => \A i \in 1..Len(csv) :
        csv[i].No \notin FrameNos(out2.processed) <=> ClaimExcludes(csv[i])

\* C6 as stated: the malformed-packet filter excludes a record if and only if its
\* destination does not start with "239.50." or its payload starts with "3100"
\* and its length is <= 65; an absent payload skips the "3100" test.
C6_AsStated == C6_InPipeline /\ C6_InFirstChecker /\ C6_InSecondChecker

---------------------------------------------------------------------------
(* C8 *)

\* the Status column of the Summary sheet is the fourth one
StatusCell(row) == row[4]

\* the statuses of detect_sequence_gaps: a bucket's rows say "All in order"
\* exactly when it has no gap and "Out-of-order detected" otherwise, and the row
\* of a selected group without packets says "No packets found"
C8_InPipeline ==
    Analysed =>
        /\ \A b \in Buckets :
              LET rows == RowsOf(summary, printed[b].Destination, printed[b].Source)
              IN  /\ rows # << >>
                  /\ \A i \in 1..Len(rows) :
                        /\ StatusCell(rows[i]) = StatusInOrder <=> printed[b].gaps = << >>
                        /\ StatusCell(rows[i]) = StatusOutOfOrder <=> printed[b].gaps # << >>
        /\ \A i \in 1..Len(summary) :
              (\A j \in 1..Len(df) : df[j].Destination # summary[i][1]) =>
                  StatusCell(summary[i]) = StatusNoPackets

\* the first CSV checker: "in order" is printed for a group exactly when no gap
\* was printed for it
C8_InFirstChecker ==
    out1.ran => \A i \in 1..Len(out1.lines) :
        out1.lines[i].in_order <=> out1.lines[i].gaps = << >>

\* the second CSV checker: the same, and the summary rows agree
C8_InSecondChecker ==
    out2.ran =>
        /\ \A i \in 1..Len(out2.lines) :
              out2.lines[i].in_order <=> out2.lines[i].gaps = << >>
        /\ \A i \in 1..Len(out2.summary) :
              LET Of(l) == l.Destination = out2.summary[i][1]
                  line == SelectSeq(out2.lines, Of)[1]
              IN  /\ out2.summary[i][3] = StatusInOrder <=> line.gaps = << >>
                  /\ out2.summary[i][3] = StatusOutOfOrder <=> line.gaps # << >>

\* C8 as stated: the status reported for a bucket is "All in order" if and only
\* if the walk found no gap, no-packets for a selected group without records,
\* anomalies-detected otherwise; "in order" is never reported for a bucket for
\* which a gap was reported.
C8_AsStated == C8_InPipeline /\ C8_InFirstChecker /\ C8_InSecondChecker

---------------------------------------------------------------------------
(* C9 *)

\* the number of summary rows of one pass of the loop: one per gap, or one
RowCount(e) == IF e.gaps = << >> THEN 1 ELSE Len(e.gaps)

\* the number of summary rows before those of printed[i]
RowOffset(i) ==
    LET F[j \in 0..Len(printed)] == IF j = 0 THEN 0 ELSE F[j - 1] + RowCount(printed[j])
    IN  F[i - 1]

\* the sources sending to group g, the k-th smallest at position k
SourcesOf(g) ==
    LET S == {df[i].Source : i \in {j \in 1..Len(df) : df[j].Destination = g}}
    IN  [k \in 1..Cardinality(S) |->
            CHOOSE s \in S : Cardinality({t \in S : StrLess(t, s)}) = k - 1]

RECURSIVE BucketKeys(_)
\* what the passes of the loop are about, in order: for each occurrence of a
\* group in the selection its (group, source) buckets by ascending source, or the
\* group alone when no record goes to it
BucketKeys(groups) ==
    IF groups = << >> THEN << >>
    ELSE LET g == Head(groups)
             Key(s) == [Destination |-> g, Source |-> s, empty |-> FALSE]
         IN  (IF SourcesOf(g) = << >>
              THEN <<[Destination |-> g, Source |-> << >>, empty |-> TRUE]>>
              ELSE Map(Key, SourcesOf(g))) \o BucketKeys(Tail(groups))

KeyOf(e) == [Destination |-> e.Destination, Source |-> e.Source, empty |-> e.empty]

\* C9 as stated: after analysis the summary has exactly one row per (group,
\* source) bucket, with the bucket's totals and gaps, and one no-packets row per
\* selected group without records.
C9_AsStated ==
    Analysed =>
        /\ Len(summary) = Len(printed)
        /\ \A b \in Buckets :
              Len(RowsOf(summary, printed[b].Destination, printed[b].Source)) = 1

\* C9 (amended): for each occurrence of a group in the selection, in order, the
\* summary has one four-cell no-packets row when no record goes to the group, and
\* otherwise for each of its buckets by ascending source one row per gap (the
\* bucket's total, "Out-of-order detected", the gap's expected and actual number
\* and frame), or one "All in order" row when the bucket has no gap.
C9_OneRowPerGapOrOnePerBucket ==
    Analysed =>
        /\ Map(KeyOf, printed) = BucketKeys(selected_groups)
        /\ Len(summary) = RowOffset(Len(printed) + 1)
        /\ \A i \in 1..Len(printed) :
              LET e == printed[i]
                  row(k) == summary[RowOffset(i) + k]
              IN  IF e.empty
                  THEN row(1) = <<e.Destination, 0, StatusNoPackets, Dash>>
                  ELSE IF e.gaps = << >>
                  THEN row(1) = <<e.Destination, e.Source, e.total, StatusInOrder, None>>
                  ELSE \A k \in 1..Len(e.gaps) :
                          row(k) = <<e.Destination, e.Source, e.total, StatusOutOfOrder,
                                     Some([expected |-> e.gaps[k].expected,
                                           actual |-> e.gaps[k].actual,
                                           No |-> e.gaps[k].No])>>

\* a bucket with two gaps and so two rows, next to a selected group without
\* records
C9_Witness ==
    /\ Analysed
    /\ \E b \in Buckets :
          /\ Len(printed[b].gaps) = 2
          /\ Len(RowsOf(summary, printed[b].Destination, printed[b].Source)) = 2
    /\ \E i \in 1..Len(printed) : printed[i].empty
    /\ Len(summary) = 3

---------------------------------------------------------------------------
(* C10 *)

Retained(r) == ~ClaimExcludes(r)
\* the records that pass the filter, and those of them without a sequence number
Filtered == SelectSeq(raw, Retained)
Dropped == LET NoNumber(r) == RawNumber(r) = None IN SelectSeq(Filtered, NoNumber)

Occurrences(groups, g) == Cardinality({i \in 1..Len(groups) : groups[i] = g})

\* the passes of the loop that analyse the bucket of the DataFrame row r
PassesOver(r) ==
    {b \in Buckets : printed[b].Destination = r.Destination /\ printed[b].Source = r.Source}

SumTotals ==
    LET F[j \in 0..Len(printed)] == IF j = 0 THEN 0 ELSE F[j - 1] + printed[j].total
    IN  F[Len(printed)]

SumOccurrences ==
    LET F[j \in 0..Len(df)] ==
            IF j = 0 THEN 0 ELSE F[j - 1] + Occurrences(selected_groups, df[j].Destination)
    IN  F[Len(df)]

\* C10 as stated: every filtered record with a sequence number is counted in
\* exactly one bucket, and the bucket totals plus the size of the drop set equal
\* the number of filtered records.
C10_AsStated ==
    Analysed =>
        /\ \A j \in 1..Len(df) : Cardinality(PassesOver(df[j])) = 1
        /\ SumTotals + Len(Dropped) = Len(Filtered)

\* C10 (amended): a filtered record is either in the drop set or exactly once in
\* the DataFrame; a record of the DataFrame is counted once for each occurrence of
\* its destination in the selection, in the bucket of its own (destination,
\* source) and in no other; so the totals plus the drop set equal the filtered
\* records when every destination of the DataFrame is selected exactly once.
C10_CountedOncePerSelection ==
    Analysed =>
        LET kept == {i \in 1..Len(raw) : Retained(raw[i])}
            numbered == {i \in kept : RawNumber(raw[i]) # None}
        IN  /\ \A i \in 1..Len(raw) :
                  LET IsIt(r) == r.No = raw[i].No
                  IN  Count(df, IsIt) = IF i \in numbered THEN 1 ELSE 0
            /\ \A j \in 1..Len(df) :
                  Cardinality(PassesOver(df[j]))
                      = Occurrences(selected_groups, df[j].Destination)
            /\ \A b \in Buckets : printed[b].total = Len(ValuesOf(b))
            /\ SumTotals = SumOccurrences
            /\ (\A j \in 1..Len(df) : Occurrences(selected_groups, df[j].Destination) = 1) =>
                  SumTotals + Cardinality(kept \ numbered) = Cardinality(kept)

\* two buckets, a record in the drop set, every destination selected once
C10_Witness ==
    /\ Analysed
    /\ Cardinality(Buckets) = 2
    /\ Len(Dropped) = 1
    /\ \A j \in 1..Len(df) : Occurrences(selected_groups, df[j].Destination) = 1
    /\ SumTotals = 2 /\ Len(Filtered) = 3

---------------------------------------------------------------------------
(* C3 in the CSV checkers, whose bucket is the destination group *)

\* the rows of a CSV file numbered by their place
Renumber(rows) == [i \in 1..Len(rows) |-> [rows[i] EXCEPT !.No = i]]

\* what a checker printed, without the frame numbers and the order of the groups
LinesView(lines) ==
    LET T(g) == [expected |-> g.expected, actual |-> g.actual, missing |-> g.missing]
    IN  {[Destination |-> lines[i].Destination, triples |-> Map(T, lines[i].gaps),
          in_order |-> lines[i].in_order] : i \in 1..Len(lines)}

\* the summary rows of the second checker without the frame numbers
SummaryView(rows) ==
    {<<rows[i][1], rows[i][2], rows[i][3],
       IF rows[i][4] = None THEN None
       ELSE Some(<<Val(rows[i][4]).expected, Val(rows[i][4]).actual>>)>> : i \in 1..Len(rows)}

\* the sequence numbers of the rows a checker kept for a group, when all have one
NumbersOf(processed, dest) ==
    LET P(r) == r.Destination = dest
        Number(r) == r.SequenceNumber.v
    IN  Map(Number, SelectSeq(processed, P))

AllNumbered(processed, dest) ==
    \A i \in 1..Len(processed) :
        processed[i].Destination = dest => processed[i].SequenceNumber.k = "int"

C3_InFirstChecker ==
    out1.ran =>
        /\ \A i \in 1..(Len(csv) - 1) :
              LinesView(FirstChecker(Renumber(SwapRows(csv, i))).lines) = LinesView(out1.lines)
        /\ \A i \in 1..Len(out1.lines) :
              LET dest == out1.lines[i].Destination
              IN  (AllNumbered(out1.processed, dest) /\ IsRun(NumbersOf(out1.processed, dest)))
                      => out1.lines[i].gaps = << >>

C3_InSecondChecker ==
    out2.ran =>
        /\ \A i \in 1..(Len(csv) - 1) :
              LET o == SecondChecker(Renumber(SwapRows(csv, i)))
              IN  /\ LinesView(o.lines) = LinesView(out2.lines)
                  /\ SummaryView(o.summary) = SummaryView(out2.summary)
        /\ \A i \in 1..Len(out2.lines) :
              LET dest == out2.lines[i].Destination
              IN  (AllNumbered(out2.processed, dest) /\ IsRun(NumbersOf(out2.processed, dest)))
                      => out2.lines[i].gaps = << >>

\* C3 as stated, for every analyzer of the repository: the result does not
\* depend on the arrival order of the records of a bucket (the same triples,
\* total and status with two neighbouring records exchanged), and a bucket whose
\* numbers are a run of consecutive integers, in any order, has no gap.
C3_AsStated ==
    C3_ResultIndependentOfCaptureOrder /\ C3_InFirstChecker /\ C3_InSecondChecker

---------------------------------------------------------------------------
(* C11 *)

\* detect_sequence_gaps: the frame of a gap is a row of the gap's bucket whose
\* sequence number is the gap's actual value
C11_InPipeline ==
    Analysed =>
        \A b \in Buckets : \A k \in 1..Len(printed[b].gaps) :
            \E j \in 1..Len(df) :
                /\ df[j].No = printed[b].gaps[k].No
                /\ df[j].Destination = printed[b].Destination
                /\ df[j].Source = printed[b].Source
                /\ df[j].SequenceNumber = printed[b].gaps[k].actual

\* the first CSV checker: the frame of a gap is the row of the group at which
\* the walk stood, its Sequence Number cell the actual value printed
C11_InFirstChecker ==
    out1.ran =>
        \A i \in 1..Len(out1.lines) : \A k \in 1..Len(out1.lines[i].gaps) :
            \E j \in 1..Len(out1.processed) :
                /\ out1.processed[j].No = out1.lines[i].gaps[k].No
                /\ out1.processed[j].Destination = out1.lines[i].Destination
                /\ out1.processed[j].SequenceNumber = out1.lines[i].gaps[k].actual

\* the second CSV checker: the frame of a gap is a row of the group whose
\* sequence number is the gap's actual value
C11_InSecondChecker ==
    out2.ran =>
        \A i \in 1..Len(out2.lines) : \A k \in 1..Len(out2.lines[i].gaps) :
            \E j \in 1..Len(out2.processed) :
                /\ out2.processed[j].No = out2.lines[i].gaps[k].No
                /\ out2.processed[j].Destination = out2.lines[i].Destination
                /\ out2.processed[j].SequenceNumber = IntCell(out2.lines[i].gaps[k].actual)

\* C11 as stated: every GapEvent references the frame number of the record at
\* which the discontinuity was observed, a record of the same bucket whose
\* sequence number equals the GapEvent's actual value, also when the bucket has
\* records whose sequence extraction failed and when the sort reordered it.
C11_AsStated == C11_InPipeline /\ C11_InFirstChecker /\ C11_InSecondChecker

===========================================================================
